---- MODULE Spec2Model ----
(***************************************************************************)
(* Model of teams-api/src/client.rs: the bearer-token cache of             *)
(* TeamsBotClient (Token::is_valid, fetch_token, create_request) and the   *)
(* bot-API operations built on top of it.                                  *)
(*                                                                         *)
(* Time is counted in whole seconds.  Every await point of the source      *)
(* (lock().await, fetch_token().await, send().await) is a separate step,   *)
(* and the clock may advance between any two steps.                        *)
(***************************************************************************)
EXTENDS Integers, FiniteSets, Sequences, TLC

\* ------------------------------------------------------------------ bounds
NumCallers == 3       \* concurrent call sites sharing one client
MaxCalls == 3         \* operations started in one behaviour
MaxTime == 2          \* seconds the clock may advance
MaxLife == 1          \* longest lifetime the issuer declares beyond the margin

\* ------------------------------------------------------- program constants
Margin == 60          \* Duration::from_secs(60) of Token::is_valid

Callers == 1..NumCallers
NoCaller == 0
None == [none |-> TRUE]

\* Lifetimes (expires_in) the issuer may declare: at the margin (never valid)
\* and above it.
ExpiresIns == Margin..(Margin + MaxLife)

\* Outcomes of one HTTP exchange: the send fails, or a response arrives with a
\* success or non-success status and a body that parses or does not.
Outcomes == {"send_err", "2xx_ok", "2xx_badjson", "non2xx_ok", "non2xx_badjson"}

VARIABLES
    now,        \* the monotonic clock (Instant::now), in seconds
    token,      \* the slot behind the mutex: None or a Token
    guard,      \* the caller holding the MutexGuard, NoCaller when free
    pc,         \* each caller's position in its operation
    arm,        \* match arm the guard holder took: "none", "fetch" or "keep"
    checkAt,    \* clock value read by the guard holder's is_valid, -1 when none
    req,        \* access_token the caller's request was built with, 0 when none
    result,     \* how the caller's operation ended
    issued,     \* issuer calls made so far (serial number of token values)
    calls,      \* operations started so far
    obs,        \* what the caller under observation's current operation did
    user,       \* the rows of the `user` table, in insertion order
    ret         \* the value the last observed call returned

\* The variables outside the token cache: the observer, the user table and
\* the last returned value.
aux == <<obs, user, ret>>

vars == <<now, token, guard, pc, arm, checkAt, req, result, issued, calls,
          obs, user, ret>>

\* No exchange observed yet in the current operation.
NoObs == [asked |-> 0, sent |-> 0, from |-> "none", outcome |-> "none",
          kind |-> "none"]

\* Nothing observed, an empty table, nothing returned.
AuxInit ==
    /\ obs = NoObs
    /\ user = << >>
    /\ ret = None

\* ---------------------------------------------------------------- Token
\* Mutant: the margin is subtracted with a wrapping subtraction (no floor).
WrappingSub(expires_in) == (expires_in - Margin) % 65536

\* Duration::from_secs(expires_in).checked_sub(Duration::from_secs(60))
\*     .unwrap_or_default()
CheckedSubOrDefault(expires_in) ==
    IF expires_in >= Margin THEN expires_in - Margin ELSE 0

\* self.acquired.elapsed() read at clock value `at` (saturating at zero)
Elapsed(t, at) == IF at >= t.acquired THEN at - t.acquired ELSE 0

\* Mutant: the comparison admits the boundary instant.
IsValidInclusive(t, at) == Elapsed(t, at) <= CheckedSubOrDefault(t.expires_in)

\* Token::is_valid
IsValid(t, at) == Elapsed(t, at) < CheckedSubOrDefault(t.expires_in)

\* The slot's state as a caller sees it at clock value `at`.
SlotState(tk, at) ==
    IF tk = None THEN "empty"
    ELSE IF IsValid(tk, at) THEN "valid" ELSE "expired"

\* ------------------------------------------------------- TeamsBotClient
\* TeamsBotClient::new: the slot starts empty and unlocked.
Init ==
    /\ now = 0
    /\ token = None
    /\ guard = NoCaller
    /\ pc = [c \in Callers |-> "idle"]
    /\ arm = "none"
    /\ checkAt = -1
    /\ req = [c \in Callers |-> 0]
    /\ result = [c \in Callers |-> "none"]
    /\ issued = 0
    /\ calls = 0
    /\ AuxInit

\* Mutant: the body is classified without looking at the status.
ErrorOfStatusBlind(outcome) ==
    CASE outcome \in {"2xx_ok", "non2xx_ok"} -> "Ok"
      [] OTHER -> "Reqwest"

\* How an exchange ends for the caller: `send().await?` and `json().await?`
\* both propagate the transport library's error through `?`; a non-success
\* status whose body parses is Error::Teams(body); a success status whose
\* body parses is Ok.
ErrorOf(outcome) ==
    CASE outcome = "2xx_ok" -> "Ok"
      [] outcome = "non2xx_ok" -> "Teams"
      [] OTHER -> "Reqwest"

\* A call site starts create_conversation / send_to_conversation /
\* update_activity, which first calls create_request and awaits the lock.
Call(c) ==
    /\ pc[c] \in {"idle", "done"}
    /\ calls < MaxCalls
    /\ calls' = calls + 1
    /\ pc' = [pc EXCEPT ![c] = "waiting"]
    /\ req' = [req EXCEPT ![c] = 0]
    /\ result' = [result EXCEPT ![c] = "none"]
    /\ UNCHANGED <<now, token, guard, arm, checkAt, issued>>

\* Mutant: the lock is taken without waiting for its holder to release it.
AcquireBarging(c) ==
    /\ pc[c] = "waiting"
    /\ guard' = c
    /\ pc' = [pc EXCEPT ![c] = "locked"]
    /\ UNCHANGED <<now, token, arm, checkAt, req, result, issued, calls>>

\* `let mut token = self.token.lock().await;` completes.
Acquire(c) ==
    /\ pc[c] = "waiting"
    /\ guard = NoCaller
    /\ guard' = c
    /\ pc' = [pc EXCEPT ![c] = "locked"]
    /\ UNCHANGED <<now, token, arm, checkAt, req, result, issued, calls>>

\* Mutant: every request refreshes, whatever the slot holds.
NeedsFetchAlways(tk, at) == TRUE

\* Whether the match of create_request takes a fetching arm.
NeedsFetch(tk, at) == tk = None \/ ~IsValid(tk, at)

\* Mutant: the guard is dropped before the issuer call instead of after the
\* request construction.
CheckUnlocked(c) ==
    /\ pc[c] = "locked"
    /\ checkAt' = now
    /\ IF NeedsFetch(token, now)
       THEN /\ pc' = [pc EXCEPT ![c] = "fetching"]
            /\ arm' = "fetch"
            /\ issued' = issued + 1
            /\ guard' = NoCaller
       ELSE /\ pc' = [pc EXCEPT ![c] = "build"]
            /\ arm' = "keep"
            /\ UNCHANGED <<issued, guard>>
    /\ UNCHANGED <<now, token, req, result, calls>>

\* `match *token { ... }`: an expired or absent token starts fetch_token,
\* anything else falls through to the request construction.
Check(c) ==
    /\ pc[c] = "locked"
    /\ checkAt' = now
    /\ IF NeedsFetch(token, now)
       THEN /\ pc' = [pc EXCEPT ![c] = "fetching"]
            /\ arm' = "fetch"
            /\ issued' = issued + 1
       ELSE /\ pc' = [pc EXCEPT ![c] = "build"]
            /\ arm' = "keep"
            /\ UNCHANGED issued
    /\ UNCHANGED <<now, token, guard, req, result, calls>>

\* The guard is dropped when create_request returns, on either path.
Unlock(c) == IF guard = c THEN NoCaller ELSE guard

\* Mutant: a failed fetch clears the slot.
FetchReturnClearing(c, outcome, e) ==
    /\ pc[c] = "fetching"
    /\ IF outcome = "2xx_ok"
       THEN /\ token' = [expires_in |-> e, access_token |-> issued, acquired |-> now]
            /\ pc' = [pc EXCEPT ![c] = "build"]
            /\ UNCHANGED <<guard, arm, checkAt, result>>
       ELSE /\ result' = [result EXCEPT ![c] = ErrorOf(outcome)]
            /\ pc' = [pc EXCEPT ![c] = "done"]
            /\ guard' = Unlock(c)
            /\ arm' = "none"
            /\ checkAt' = -1
            /\ token' = None
    /\ UNCHANGED <<now, req, issued, calls>>

\* Mutant: the error of fetch_token is dropped and the request is built anyway.
FetchReturnSwallowing(c, outcome, e) ==
    /\ pc[c] = "fetching"
    /\ IF outcome = "2xx_ok"
       THEN token' = [expires_in |-> e, access_token |-> issued, acquired |-> now]
       ELSE UNCHANGED token
    /\ pc' = [pc EXCEPT ![c] = "build"]
    /\ UNCHANGED <<now, guard, arm, checkAt, req, result, issued, calls>>

\* Mutant: a failed fetch is tried again inside the same call.
FetchReturnRetrying(c, outcome, e) ==
    /\ pc[c] = "fetching"
    /\ IF outcome = "2xx_ok"
       THEN /\ token' = [expires_in |-> e, access_token |-> issued, acquired |-> now]
            /\ pc' = [pc EXCEPT ![c] = "build"]
            /\ UNCHANGED <<guard, arm, checkAt, result, issued>>
       ELSE IF issued <= MaxCalls
       THEN /\ issued' = issued + 1
            /\ UNCHANGED <<token, pc, guard, arm, checkAt, result>>
       ELSE /\ result' = [result EXCEPT ![c] = ErrorOf(outcome)]
            /\ pc' = [pc EXCEPT ![c] = "done"]
            /\ guard' = Unlock(c)
            /\ arm' = "none"
            /\ checkAt' = -1
            /\ UNCHANGED <<token, issued>>
    /\ UNCHANGED <<now, req, calls>>

\* Mutant: a failed fetch returns the error with the guard still held.
FetchReturnHolding(c, outcome, e) ==
    /\ pc[c] = "fetching"
    /\ IF outcome = "2xx_ok"
       THEN /\ token' = [expires_in |-> e, access_token |-> issued, acquired |-> now]
            /\ pc' = [pc EXCEPT ![c] = "build"]
            /\ UNCHANGED <<guard, arm, checkAt, result>>
       ELSE /\ result' = [result EXCEPT ![c] = ErrorOf(outcome)]
            /\ pc' = [pc EXCEPT ![c] = "done"]
            /\ UNCHANGED <<guard, arm, checkAt, token>>
    /\ UNCHANGED <<now, req, issued, calls>>

\* fetch_token returns.  Ok(token): `*token = Some(..)` with acquired set to
\* Instant::now at deserialisation.  Err: `?` leaves create_request and the
\* operation with that error; the slot is not assigned.
FetchReturn(c, outcome, e) ==
    /\ pc[c] = "fetching"
    /\ IF outcome = "2xx_ok"
       THEN /\ token' = [expires_in |-> e, access_token |-> issued, acquired |-> now]
            /\ pc' = [pc EXCEPT ![c] = "build"]
            /\ UNCHANGED <<guard, arm, checkAt, result>>
       ELSE /\ result' = [result EXCEPT ![c] = ErrorOf(outcome)]
            /\ pc' = [pc EXCEPT ![c] = "done"]
            /\ guard' = Unlock(c)
            /\ arm' = "none"
            /\ checkAt' = -1
            /\ UNCHANGED token
    /\ UNCHANGED <<now, req, issued, calls>>

\* Mutant: the bearer is taken from another field of the token.
AttachWrongField(c) ==
    /\ pc[c] = "build"
    /\ token # None
    /\ req' = [req EXCEPT ![c] = token.expires_in]
    /\ pc' = [pc EXCEPT ![c] = "built"]
    /\ UNCHANGED <<now, token, guard, arm, checkAt, result, issued, calls>>

\* `.bearer_auth(&token.as_ref().unwrap().access_token)`: unwrap panics on an
\* empty slot, which unwinds out of the operation and drops the guard.
Attach(c) ==
    /\ pc[c] = "build"
    /\ IF token = None
       THEN /\ result' = [result EXCEPT ![c] = "panic"]
            /\ pc' = [pc EXCEPT ![c] = "done"]
            /\ guard' = Unlock(c)
            /\ arm' = "none"
            /\ checkAt' = -1
            /\ UNCHANGED req
       ELSE /\ req' = [req EXCEPT ![c] = token.access_token]
            /\ pc' = [pc EXCEPT ![c] = "built"]
            /\ UNCHANGED <<result, guard, arm, checkAt>>
    /\ UNCHANGED <<now, token, issued, calls>>

\* Mutant: the guard stays held while the business request is in flight.
ReturnHolding(c) ==
    /\ pc[c] = "built"
    /\ pc' = [pc EXCEPT ![c] = "sending"]
    /\ UNCHANGED <<now, token, guard, arm, checkAt, req, result, issued, calls>>

\* `Ok(request)`: create_request returns, the guard is dropped, and the
\* operation dispatches the request with `.json(body).send()`.
Return(c) ==
    /\ pc[c] = "built"
    /\ guard' = Unlock(c)
    /\ arm' = "none"
    /\ checkAt' = -1
    /\ pc' = [pc EXCEPT ![c] = "sending"]
    /\ UNCHANGED <<now, token, req, result, issued, calls>>

\* The bot API's exchange ends and the operation classifies it.
Response(c, outcome) ==
    /\ pc[c] = "sending"
    /\ result' = [result EXCEPT ![c] = ErrorOf(outcome)]
    /\ pc' = [pc EXCEPT ![c] = "done"]
    /\ UNCHANGED <<now, token, guard, arm, checkAt, req, issued, calls>>

\* The monotonic clock advances by one second.
Tick ==
    /\ now < MaxTime
    /\ now' = now + 1
    /\ UNCHANGED <<token, guard, pc, arm, checkAt, req, result, issued, calls>>

Next ==
    \/ \E c \in Callers : Call(c) /\ UNCHANGED aux
    \/ \E c \in Callers : Acquire(c) /\ UNCHANGED aux
    \/ \E c \in Callers : Check(c) /\ UNCHANGED aux
    \/ \E c \in Callers, o \in Outcomes, e \in ExpiresIns : FetchReturn(c, o, e) /\ UNCHANGED aux
    \/ \E c \in Callers : Attach(c) /\ UNCHANGED aux
    \/ \E c \in Callers : Return(c) /\ UNCHANGED aux
    \/ \E c \in Callers, o \in Outcomes : Response(c, o) /\ UNCHANGED aux
    \/ Tick /\ UNCHANGED aux

Spec == Init /\ [][Next]_vars

\* ------------------------------------------------- concurrent bursts
\* One request per caller, all issued together: every caller has called
\* create_request and awaits the lock.
NextBurst ==
    \/ \E c \in Callers : Acquire(c) /\ UNCHANGED aux
    \/ \E c \in Callers : Check(c) /\ UNCHANGED aux
    \/ \E c \in Callers, o \in Outcomes, e \in ExpiresIns : FetchReturn(c, o, e) /\ UNCHANGED aux
    \/ \E c \in Callers : Attach(c) /\ UNCHANGED aux
    \/ \E c \in Callers : Return(c) /\ UNCHANGED aux
    \/ \E c \in Callers, o \in Outcomes : Response(c, o) /\ UNCHANGED aux
    \/ Tick /\ UNCHANGED aux

\* The burst meets an empty slot (a client nobody has used yet).
InitEmptyBurst ==
    /\ now = 0
    /\ token = None
    /\ guard = NoCaller
    /\ pc = [c \in Callers |-> "waiting"]
    /\ arm = "none"
    /\ checkAt = -1
    /\ req = [c \in Callers |-> 0]
    /\ result = [c \in Callers |-> "none"]
    /\ issued = 0
    /\ calls = NumCallers
    /\ AuxInit

SpecEmptyBurst == InitEmptyBurst /\ [][NextBurst]_vars

\* The burst meets a token fetched earlier (the issuer's first) and expired
\* since.
InitExpiredBurst ==
    /\ now \in 0..MaxTime
    /\ token \in {[expires_in |-> e, access_token |-> 1, acquired |-> 0] :
                     e \in ExpiresIns}
    /\ SlotState(token, now) = "expired"
    /\ guard = NoCaller
    /\ pc = [c \in Callers |-> "waiting"]
    /\ arm = "none"
    /\ checkAt = -1
    /\ req = [c \in Callers |-> 0]
    /\ result = [c \in Callers |-> "none"]
    /\ issued = 1
    /\ calls = NumCallers
    /\ AuxInit

SpecExpiredBurst == InitExpiredBurst /\ [][NextBurst]_vars

\* ------------------------------------------------- is_valid on its own
\* Widest lifetime and latest acquisition the validity check is tried on.
ProbeExpires == 0..(Margin + MaxLife + 1)
ProbeAcquired == 0..1

\* One caller holds the lock and is about to run the match on a slot holding
\* any token of the probe ranges, just acquired.
InitValid ==
    /\ token \in {[expires_in |-> e, access_token |-> 1, acquired |-> a] :
                     e \in ProbeExpires, a \in ProbeAcquired}
    /\ now = token.acquired
    /\ guard = 1
    /\ pc = [c \in Callers |-> IF c = 1 THEN "locked" ELSE "idle"]
    /\ arm = "none"
    /\ checkAt = -1
    /\ req = [c \in Callers |-> 0]
    /\ result = [c \in Callers |-> "none"]
    /\ issued = 1
    /\ calls = 1
    /\ AuxInit

NextValid ==
    \/ \E c \in Callers : Check(c) /\ UNCHANGED aux
    \/ Tick /\ UNCHANGED aux

SpecValid == InitValid /\ [][NextValid]_vars

\* ------------------------------------------- one caller under observation
\* The caller whose operations are observed one at a time.
Observed == 1

\* Lifetimes the issuer declares to the observed caller: none, exactly the
\* margin, one second more, and one that outlasts the clock's horizon.
SoloExpiresIns == {0, Margin, Margin + 1, Margin + MaxTime + 1}

\* The observer after a step of the observed caller: issuer requests and
\* bot-API requests of the current operation are counted, and the exchange
\* that ended in this step (if any) is recorded with what the caller got.
Observe(from, outcome) ==
    obs' = [asked |-> obs.asked + (issued' - issued),
            sent |-> obs.sent + (IF pc'[Observed] = "sending" /\ from # "none"
                                 THEN 1 ELSE 0),
            from |-> IF from \in {"issuer", "api"} THEN from ELSE obs.from,
            outcome |-> IF outcome # "none" THEN outcome ELSE obs.outcome,
            kind |-> IF outcome # "none" THEN result'[Observed] ELSE obs.kind]

\* The observed caller runs operations one after the other; the observer is
\* reset when an operation starts and the finished operation's record kept.
NextSolo ==
    \/ Call(Observed) /\ obs' = NoObs /\ ret' = obs /\ UNCHANGED user
    \/ Acquire(Observed) /\ UNCHANGED aux
    \/ Check(Observed) /\ Observe("none", "none") /\ UNCHANGED <<user, ret>>
    \/ \E o \in Outcomes, e \in SoloExpiresIns :
          FetchReturn(Observed, o, e) /\ Observe("issuer", o)
                                      /\ UNCHANGED <<user, ret>>
    \/ Attach(Observed) /\ UNCHANGED aux
    \/ Return(Observed) /\ Observe("dispatch", "none") /\ UNCHANGED <<user, ret>>
    \/ \E o \in Outcomes :
          Response(Observed, o) /\ Observe("api", o) /\ UNCHANGED <<user, ret>>
    \/ Tick /\ UNCHANGED aux

SpecSolo == Init /\ [][NextSolo]_vars

\* ---- progress of create_request ----

\* Progress depends on whether an exchange succeeds, not on how it fails,
\* and on whether a fetched token is valid at the next check, not on how
\* long: one failure and the two lifetimes around the margin stand for all.
LiveOutcomes == {"2xx_ok", "non2xx_ok"}

LiveExpiresIns == {Margin, Margin + 1}

\* Time stands still: a token of lifetime 60 is expired at once, which is
\* all a later instant could add.
NextLive ==
    \/ \E c \in Callers : Call(c) /\ UNCHANGED aux
    \/ \E c \in Callers : Acquire(c) /\ UNCHANGED aux
    \/ \E c \in Callers : Check(c) /\ UNCHANGED aux
    \/ \E c \in Callers, o \in LiveOutcomes, e \in LiveExpiresIns :
          FetchReturn(c, o, e) /\ UNCHANGED aux
    \/ \E c \in Callers : Attach(c) /\ UNCHANGED aux
    \/ \E c \in Callers : Return(c) /\ UNCHANGED aux
    \/ \E c \in Callers, o \in LiveOutcomes : Response(c, o) /\ UNCHANGED aux

\* tokio's Mutex hands the lock to its waiters in the order they asked for
\* it, so a waiter is not passed over for ever (strong fairness of Acquire);
\* the runtime polls a task that can go on (weak fairness of the steps
\* between two awaits); the issuer answers every token request.
FairLive ==
    \A c \in Callers :
        /\ SF_vars(Acquire(c) /\ UNCHANGED aux)
        /\ WF_vars(Check(c) /\ UNCHANGED aux)
        /\ WF_vars(\E o \in LiveOutcomes, e \in LiveExpiresIns :
                       FetchReturn(c, o, e) /\ UNCHANGED aux)
        /\ WF_vars(Attach(c) /\ UNCHANGED aux)
        /\ WF_vars(Return(c) /\ UNCHANGED aux)

SpecLive == Init /\ [][NextLive]_vars /\ FairLive

\* ---- the request URL (create_request, format!("{base_url}{url}")) ----

\* Strings are sequences of characters; three characters are enough to tell
\* a slash from the rest.
Chars == {"h", "o", "/"}

MaxBase == 3

RECURSIVE SeqsUpTo(_)
SeqsUpTo(n) ==
    IF n = 0 THEN {<< >>}
    ELSE LET shorter == SeqsUpTo(n - 1)
         IN  shorter \cup {Append(x, ch) : x \in shorter, ch \in Chars}

\* base_url: Option<&str>, any string the caller passes, or None.
NoBase == [some |-> FALSE, str |-> << >>]

SomeBase(x) == [some |-> TRUE, str |-> x]

BaseUrls == {SomeBase(x) : x \in SeqsUpTo(MaxBase)} \cup {NoBase}

\* The conversation and activity ids the callers splice into the path.
Ids == {<< >>, <<"o">>, <<"/">>}

\* The `url` argument at the three call sites: "/v3/conversations",
\* "/v3/conversations/{id}/activities" and
\* "/v3/conversations/{id}/activities/{id}" ("o" stands for a segment).
Paths ==
    {<<"/", "o">>}
        \cup {<<"/", "o", "/">> \o id \o <<"/", "o">> : id \in Ids}
        \cup {<<"/", "o", "/">> \o id \o <<"/", "o", "/">> \o id : id \in Ids}

\* "https://smba.trafficmanager.net/teams": slashes inside, none at the end.
DefaultBase == <<"h", "/", "o">>

\* Mutant: one trailing slash is removed, as strip_suffix would.
StripOneSlash(x) ==
    IF Len(x) > 0 /\ x[Len(x)] = "/" THEN SubSeq(x, 1, Len(x) - 1) ELSE x

\* str::trim_end_matches('/'): the pattern is removed repeatedly from the end.
RECURSIVE TrimEndMatches(_)
TrimEndMatches(x) ==
    IF Len(x) > 0 /\ x[Len(x)] = "/"
    THEN TrimEndMatches(SubSeq(x, 1, Len(x) - 1))
    ELSE x

\* base_url.map(|x| x.trim_end_matches('/')).unwrap_or(DEFAULT)
EffectiveBase(base_url) ==
    IF base_url.some THEN TrimEndMatches(base_url.str) ELSE DefaultBase

\* format!("{base_url}{url}", ...)
FormatUrl(base_url, url) == EffectiveBase(base_url) \o url

\* create_request builds the URL of its request from its two arguments.
BuildUrl(base_url, url) ==
    /\ ret' = [base_url |-> base_url, url |-> url,
               request |-> FormatUrl(base_url, url)]
    /\ UNCHANGED <<now, token, guard, pc, arm, checkAt, req, result, issued,
                   calls, obs, user>>

NextUrl == \E base_url \in BaseUrls, url \in Paths : BuildUrl(base_url, url)

SpecUrl == Init /\ [][NextUrl]_vars

\* ---- the user table (database/queries/user.rs) ----

MaxRows == 2

UserIds == {"u1", "u2"}

Names == {"ann", "bob"}

ConversationIds == {"k1", "k2"}

\* SQL NULL in the nullable column conversation_id (Option<String> in the
\* row type of get_conversation_by_id).
Null == "NULL"

\* The value a column left out of an INSERT receives.  The table's
\* declaration is not among the sources; the column carries no DEFAULT.
ColumnDefault == Null

\* The unit `()` the statements return on success, and the error of a
\* statement the table rejects.
Unit == "unit"

Rejected == "Err"

\* SELECT * FROM user WHERE id = ?
RowsOf(id) == {i \in 1..Len(user) : user[i].id = id}

\* What an operation hands back, with the statement's rows_affected.
Returned(op, id, value, rows) ==
    ret' = [op |-> op, id |-> id, value |-> value, rows |-> rows]

\* Mutant: a plain INSERT, without the NOT EXISTS condition.
create_user_unguarded(user_id, name) ==
    /\ Len(user) < MaxRows
    /\ user' = Append(user, [id |-> user_id, name |-> name,
                             conversation_id |-> ColumnDefault])
    /\ Returned("create_user", user_id, Unit, 1)
    /\ UNCHANGED <<now, token, guard, pc, arm, checkAt, req, result, issued,
                   calls, obs>>

\* INSERT INTO user (id, name) SELECT ?, ? WHERE NOT EXISTS
\*     (SELECT * FROM user WHERE id = ?)
create_user(user_id, name) ==
    /\ IF RowsOf(user_id) = {}
       THEN /\ Len(user) < MaxRows
            /\ user' = Append(user, [id |-> user_id, name |-> name,
                                     conversation_id |-> ColumnDefault])
            /\ Returned("create_user", user_id, Unit, 1)
       ELSE /\ UNCHANGED user
            /\ Returned("create_user", user_id, Unit, 0)
    /\ UNCHANGED <<now, token, guard, pc, arm, checkAt, req, result, issued,
                   calls, obs>>

\* INSERT INTO user (id, name, conversation_id) VALUES (?, ?, ?).  With a row
\* of that id in the table the statement either fails on the key, if the
\* table declares one, or adds a second row, if it declares none: `unique`
\* is the choice the declaration makes.
create_user_with_conversation(user_id, name, conversation_id, unique) ==
    /\ IF RowsOf(user_id) # {} /\ unique
       THEN /\ UNCHANGED user
            /\ Returned("create_user_with_conversation", user_id, Rejected, 0)
       ELSE /\ Len(user) < MaxRows
            /\ user' = Append(user, [id |-> user_id, name |-> name,
                                     conversation_id |-> conversation_id])
            /\ Returned("create_user_with_conversation", user_id, Unit, 1)
    /\ UNCHANGED <<now, token, guard, pc, arm, checkAt, req, result, issued,
                   calls, obs>>

\* UPDATE user SET conversation_id = ? WHERE id = ?
update_conversation(user_id, conversation_id) ==
    /\ user' = [i \in 1..Len(user) |->
                   IF user[i].id = user_id
                   THEN [user[i] EXCEPT !.conversation_id = conversation_id]
                   ELSE user[i]]
    /\ Returned("update_conversation", user_id, Unit, Cardinality(RowsOf(user_id)))
    /\ UNCHANGED <<now, token, guard, pc, arm, checkAt, req, result, issued,
                   calls, obs>>

\* SELECT conversation_id FROM user WHERE id = ?, fetch_optional: None
\* without a row, else Some(column) of the first row, the column itself
\* None when NULL.  An Option is a sequence of at most one element.
get_conversation_by_id(id) ==
    /\ LET rows == RowsOf(id)
       IN  IF rows = {}
           THEN Returned("get_conversation_by_id", id, << >>, 0)
           ELSE LET first == CHOOSE i \in rows : \A j \in rows : i <= j
                    col == user[first].conversation_id
                IN  Returned("get_conversation_by_id", id,
                             <<IF col = Null THEN << >> ELSE <<col>>>>, 0)
    /\ UNCHANGED <<now, token, guard, pc, arm, checkAt, req, result, issued,
                   calls, obs, user>>

NextUser ==
    \/ \E id \in UserIds, n \in Names : create_user(id, n)
    \/ \E id \in UserIds, n \in Names, k \in ConversationIds, u \in BOOLEAN :
          create_user_with_conversation(id, n, k, u)
    \/ \E id \in UserIds, k \in ConversationIds : update_conversation(id, k)
    \/ \E id \in UserIds : get_conversation_by_id(id)

SpecUser == Init /\ [][NextUser]_vars

\* ------------------------------------------------------------ properties
\* create_request has returned to every caller (with a request or an error).
AllReturned == \A c \in Callers : pc[c] \in {"sending", "done"}

\* Callers inside the part of create_request that runs under the lock.
InCritical(c) == pc[c] \in {"locked", "fetching", "build", "built"}

\* The spec's validity predicate, written out: elapsed < expires_in - 60.
WithinMargin(t, at) == at - t.acquired < t.expires_in - Margin

\* The slot holds the token numbered n and that token is inside its margin.
SlotHoldsValid(n) ==
    /\ token # None
    /\ token.access_token = n
    /\ WithinMargin(token, now)

\* C1 as stated: N concurrent requests issued on an empty cache make exactly
\* one issuer call and are all built with the same token value.
C1_ExactlyOneFetch_Original ==
    AllReturned =>
        /\ issued = 1
        /\ \A c \in Callers : req[c] = 1

\* C1, amended: N concurrent requests issued on an empty cache make exactly
\* one issuer call and are all built with its token, provided that call
\* succeeds and its token is still cached and inside its margin when the last
\* of the N requests has been built.
C1_ExactlyOneFetch ==
    (AllReturned /\ SlotHoldsValid(1)) =>
        /\ issued = 1
        /\ \A c \in Callers : req[c] = 1

\* C1 witness: the burst is over, one issuer call was made and every request
\* carries its token.
C1_Witness ==
    /\ AllReturned
    /\ SlotHoldsValid(1)
    /\ issued = 1
    /\ \A c \in Callers : req[c] = 1

\* While one caller is inside fetch_token every other caller of the burst is
\* either still waiting for the lock or already through create_request.
OthersBlocked ==
    \A c \in Callers : pc[c] = "fetching" =>
        \A d \in Callers \ {c} : pc[d] \in {"waiting", "sending", "done"}

\* C2 as stated: of N operations racing against an expired cached token
\* exactly one calls the issuer, the others block until that refresh is done
\* and then all attach the fresh token (number 2), never the stale one.
C2_SingleRefresh_Original ==
    /\ OthersBlocked
    /\ AllReturned =>
        /\ issued = 2
        /\ \A c \in Callers : req[c] = 2

\* C2, amended: of N operations racing against an expired cached token, the
\* others block on the lock while one refreshes, no request is ever built with
\* the stale token, and, provided the first refresh succeeds and its token is
\* still cached and inside its margin when the last request has been built,
\* exactly one issuer call was made and every request carries the fresh token.
C2_SingleRefresh ==
    /\ OthersBlocked
    /\ \A c \in Callers : req[c] # 1
    /\ (AllReturned /\ SlotHoldsValid(2)) =>
        /\ issued = 2
        /\ \A c \in Callers : req[c] = 2

\* C2 witness: the whole burst went through with a single refresh.
C2_Witness ==
    /\ AllReturned
    /\ SlotHoldsValid(2)
    /\ issued = 2
    /\ \A c \in Callers : req[c] = 2

\* C3: at most one caller is inside fetch_token at any time, and that caller
\* holds the cache lock for as long as the issuer call lasts.
C3_RefreshesSerialized ==
    /\ Cardinality({c \in Callers : pc[c] = "fetching"}) <= 1
    /\ \A c \in Callers : pc[c] = "fetching" => guard = c

\* C3 witness: one caller is inside fetch_token while two others wait.
C3_Witness ==
    \E c \in Callers :
        /\ pc[c] = "fetching"
        /\ Cardinality({d \in Callers : pc[d] = "waiting"}) >= 2

\* C4: a check that finds a cached token inside its margin makes no issuer
\* call and goes on to build the request, whatever the other callers do.
C4_ValidTokenNoFetch ==
    [][\A c \in Callers :
          (/\ pc[c] = "locked"
           /\ pc'[c] # "locked"
           /\ token # None
           /\ WithinMargin(token, now))
          => (issued' = issued /\ pc'[c] = "build" /\ token' = token)]_vars

\* C4 witness: a caller took the no-fetch arm on a token somebody else
\* fetched, while other requests are waiting and in flight.
C4_Witness ==
    \E c \in Callers :
        /\ pc[c] = "build"
        /\ arm = "keep"
        /\ issued = 1
        /\ \E d \in Callers : pc[d] = "waiting"
        /\ \E d \in Callers : pc[d] = "sending"

\* C5: a failed issuer call leaves the slot as it was (empty, or the token
\* found expired), ends the caller's operation with the error and builds no
\* request; and every check that finds the slot empty or expired calls the
\* issuer, so the call after a failure tries the refresh again.
C5_FailureNotCached ==
    /\ [][\A c \in Callers :
            (pc[c] = "fetching" /\ pc'[c] = "done")
            => /\ token' = token
               /\ result'[c] \in {"Teams", "Reqwest"}
               /\ req'[c] = 0
               /\ (token' = None \/ ~WithinMargin(token', now'))]_vars
    /\ [][\A c \in Callers :
            (/\ pc[c] = "locked"
             /\ pc'[c] # "locked"
             /\ (token = None \/ ~WithinMargin(token, now)))
            => (pc'[c] = "fetching" /\ issued' = issued + 1)]_vars

\* C5 witness: a refresh of an expired token failed; the old token is still
\* in the slot and the caller has its error.
C5_Witness ==
    \E c \in Callers :
        /\ pc[c] = "done"
        /\ result[c] = "Teams"
        /\ req[c] = 0
        /\ token # None
        /\ ~WithinMargin(token, now)

\* C6: the slot changes only in a step of the caller that holds the lock and
\* is returning from fetch_token, every caller between the lock acquisition
\* and the return of create_request holds the lock, and the lock does not
\* change hands between a check and the overwrite that follows it.
C6_SlotUnderLock ==
    /\ [](\A c \in Callers : InCritical(c) => guard = c)
    /\ [][token' # token =>
             /\ guard \in Callers
             /\ pc[guard] = "fetching"
             /\ arm = "fetch"
             /\ guard' = guard]_vars

\* C6 witness: the lock holder has just overwritten an older token.
C6_Witness ==
    /\ guard \in Callers
    /\ pc[guard] = "build"
    /\ arm = "fetch"
    /\ token # None
    /\ token.access_token = 2

\* C7: the lock is held from the check to the bearer attachment and is not
\* held by a caller whose bot-API request is in flight.
C7_LockReleasedBeforeSend ==
    \A c \in Callers :
        /\ pc[c] \in {"locked", "fetching", "build", "built"} => guard = c
        /\ pc[c] = "sending" => guard # c

\* C7 witness: two business requests are in flight while a third caller
\* refreshes the token under the lock.
C7_Witness ==
    \E c \in Callers :
        /\ pc[c] = "fetching"
        /\ guard = c
        /\ Cardinality({d \in Callers : pc[d] = "sending"}) >= 2

\* C8 as stated: the token attached to a request is inside its margin at the
\* moment of attachment.
C8_AttachedTokenValid_Original ==
    \A c \in Callers : pc[c] = "built" =>
        /\ token # None
        /\ req[c] = token.access_token
        /\ WithinMargin(token, now)

\* C8, amended: the token attached to a request is the one in the slot, and
\* it either was inside its margin when this call checked it, or was fetched
\* by this call after that check and attached without being checked.
C8_AttachedTokenValid ==
    \A c \in Callers : pc[c] = "built" =>
        /\ token # None
        /\ req[c] = token.access_token
        /\ arm \in {"keep", "fetch"}
        /\ arm = "keep" => WithinMargin(token, checkAt)
        /\ arm = "fetch" => token.acquired >= checkAt

\* C8 witness: a request was built with a token that passed this call's
\* check one second before the end of its margin.
C8_Witness ==
    \E c \in Callers :
        /\ pc[c] = "built"
        /\ arm = "keep"
        /\ checkAt - token.acquired = token.expires_in - Margin - 1

\* C9: for expires_in >= 61 the check finds the token valid exactly when
\* elapsed < expires_in - 60: valid at acquisition and up to one second
\* before the boundary, invalid at the boundary and after it.
C9_ValidUntilMargin ==
    \A c \in Callers :
        (pc[c] \in {"build", "fetching"} /\ token.expires_in >= Margin + 1) =>
            /\ pc[c] = "build" <=> checkAt - token.acquired < token.expires_in - Margin
            /\ checkAt = token.acquired => pc[c] = "build"
            /\ checkAt = token.acquired + token.expires_in - Margin - 1
                   => pc[c] = "build"
            /\ checkAt >= token.acquired + token.expires_in - Margin
                   => pc[c] = "fetching"

\* C9 witness: a token of lifetime 62 is found invalid exactly at the
\* boundary, two seconds after its acquisition.
C9_Witness ==
    \E c \in Callers :
        /\ pc[c] = "fetching"
        /\ token.expires_in = Margin + 2
        /\ checkAt = token.acquired + token.expires_in - Margin

\* C10: for expires_in <= 60 the check never finds the token valid, from the
\* acquisition on.
C10_ShortLifetimeNeverValid ==
    \A c \in Callers :
        (pc[c] \in {"build", "fetching"} /\ token.expires_in <= Margin) =>
            pc[c] = "fetching"

\* C10 witness: a token of lifetime 0 is found invalid at its acquisition.
C10_Witness ==
    \E c \in Callers :
        /\ pc[c] = "fetching"
        /\ token.expires_in = 0
        /\ checkAt = token.acquired

\* The error results an operation can end with.
ErrorKinds == {"Teams", "Reqwest"}

\* C11: an operation ends with exactly one result; Ok only after its request
\* was dispatched once with a token attached and the 2xx body parsed; and an
\* operation whose token fetch failed ends with that error, without a request
\* built or dispatched to the bot API.
C11_NoPartialSuccess ==
    pc[Observed] = "done" =>
        /\ result[Observed] \in {"Ok"} \cup ErrorKinds
        /\ result[Observed] = obs.kind
        /\ result[Observed] = "Ok" =>
               /\ obs.from = "api"
               /\ obs.outcome = "2xx_ok"
               /\ obs.sent = 1
               /\ req[Observed] # 0
               /\ token # None
        /\ obs.from = "issuer" =>
               /\ result[Observed] \in ErrorKinds
               /\ obs.outcome # "2xx_ok"
               /\ obs.sent = 0
               /\ req[Observed] = 0
        /\ obs.from \in {"issuer", "api"}

\* C11 witness: the operation ended with the issuer's error and nothing was
\* sent to the bot API.
C11_Witness ==
    /\ pc[Observed] = "done"
    /\ obs.from = "issuer"
    /\ result[Observed] = "Teams"
    /\ obs.asked = 1
    /\ obs.sent = 0

\* C12: one operation sends at most one request to the issuer and at most one
\* to the bot API, and a failed exchange ends the operation at once with the
\* error of that exchange.
C12_NoRetry ==
    /\ obs.asked <= 1
    /\ obs.sent <= 1
    /\ obs.kind \in ErrorKinds =>
           /\ pc[Observed] = "done"
           /\ result[Observed] = obs.kind
    /\ (obs.from = "issuer" /\ obs.outcome \notin {"none", "2xx_ok"}) =>
           obs.kind \in ErrorKinds
    /\ (obs.from = "api" /\ obs.outcome # "2xx_ok") => obs.kind \in ErrorKinds

\* C12 witness: the operation made one issuer request and one bot-API
\* request, and ended with the failure of the second.
C12_Witness ==
    /\ pc[Observed] = "done"
    /\ obs.asked = 1
    /\ obs.sent = 1
    /\ obs.from = "api"
    /\ obs.outcome = "send_err"
    /\ result[Observed] = "Reqwest"

\* C13 as stated: a non-2xx response carrying an error payload gives an
\* AuthError when it comes from the issuer and an ApiError when it comes from
\* the bot API, never the transport's error; the two kinds differ; and a 2xx
\* response gives neither.
C13_ErrorKinds_Original ==
    /\ obs.outcome = "non2xx_ok" => obs.kind \in ErrorKinds \ {"Reqwest"}
    /\ obs.outcome \in {"2xx_ok", "2xx_badjson"} => obs.kind \notin ErrorKinds \ {"Reqwest"}
    /\ (/\ ret # None
        /\ ret.from = "issuer" /\ ret.outcome = "non2xx_ok"
        /\ obs.from = "api" /\ obs.outcome = "non2xx_ok") => ret.kind # obs.kind

\* C13, amended: a non-2xx response carrying an error payload gives
\* Error::Teams with that payload, never the transport's error, and it is the
\* same kind whether the response came from the issuer or from the bot API;
\* a 2xx response never gives Error::Teams.
C13_ErrorKinds ==
    /\ obs.outcome = "non2xx_ok" => obs.kind = "Teams"
    /\ obs.kind = "Teams" => obs.outcome = "non2xx_ok"
    /\ obs.outcome = "2xx_ok" =>
           obs.kind = (IF obs.from = "api" THEN "Ok" ELSE "none")
    /\ (/\ ret # None
        /\ ret.from = "issuer" /\ ret.outcome = "non2xx_ok"
        /\ obs.from = "api" /\ obs.outcome = "non2xx_ok") => ret.kind = obs.kind

\* C13 witness: one operation ended with the issuer's non-2xx payload and the
\* next with the bot API's, both as Error::Teams.
C13_Witness ==
    /\ ret # None
    /\ ret.from = "issuer" /\ ret.outcome = "non2xx_ok" /\ ret.kind = "Teams"
    /\ obs.from = "api" /\ obs.outcome = "non2xx_ok" /\ obs.kind = "Teams"

\* C14: the slot is empty at construction and stays empty until a fetch
\* succeeds; every later change of the slot stores a whole fresh token (new
\* serial, acquired now) on the return of a fetch made by the lock holder
\* whose check found the slot empty or the held token expired; a slot that
\* holds a token never becomes empty again.
C14_SlotLifecycle ==
    /\ token = None
    /\ [](token = None => \A c \in Callers : req[c] = 0 /\ result[c] # "Ok")
    /\ [][token' # token =>
            /\ token' # None
            /\ token' = [expires_in |-> token'.expires_in,
                         access_token |-> issued, acquired |-> now]
            /\ token # None => token'.access_token # token.access_token
            /\ guard \in Callers
            /\ pc[guard] = "fetching" /\ pc'[guard] = "build"
            /\ arm = "fetch"
            /\ token = None \/ ~WithinMargin(token, checkAt)]_vars
    /\ [][token # None => token' # None]_vars

\* C14 witness: the slot holds the second token, stored at a later time after
\* the first one expired, and the lock is free again.
C14_Witness ==
    /\ token # None
    /\ token.access_token = 2
    /\ token.acquired >= 1
    /\ guard = NoCaller
    /\ \E c \in Callers : pc[c] = "done" /\ result[c] = "Ok" /\ req[c] = 1

\* C15: the bearer of a built request is the access_token of the token in the
\* slot; a call that fetched carries the token it fetched, and a call that
\* found the cached token valid carries that token without an issuer request.
C15_BearerIsSlotToken ==
    pc[Observed] = "built" =>
        /\ token # None
        /\ req[Observed] = token.access_token
        /\ arm = "fetch" => (obs.asked = 1 /\ req[Observed] = issued)
        /\ arm = "keep" => (obs.asked = 0 /\ WithinMargin(token, checkAt))

\* C15 witness: the first operation fetched token 1; the second, started
\* later, is built with token 1 again and made no issuer request.
C15_Witness ==
    /\ calls = 2
    /\ ret # None /\ ret.asked = 1 /\ ret.kind = "Ok"
    /\ pc[Observed] = "built"
    /\ req[Observed] = 1
    /\ obs.asked = 0
    /\ issued = 1
    /\ now > token.acquired

\* C17: a token whose declared lifetime is at most 60 seconds is never found
\* valid: every call that meets it fetches again, the call that fetched it
\* attaches it all the same, and the issuer is only ever called from the
\* check of a create_request (the slot only ever written on its return).
C17_ShortLifetimeAlwaysRefetched ==
    /\ [](pc[Observed] \in {"build", "built"} /\ token.expires_in <= Margin
            => /\ arm = "fetch"
               /\ obs.asked = 1
               /\ token.access_token = issued)
    /\ [][issued' # issued =>
            pc[Observed] = "locked" /\ pc'[Observed] = "fetching"]_vars
    /\ [][token' # token =>
            pc[Observed] = "fetching" /\ pc'[Observed] = "build"]_vars

\* C17 witness: the second call in a row has fetched a token of lifetime 60
\* and built its request with it.
C17_Witness ==
    /\ calls = 2
    /\ issued = 2
    /\ ret # None /\ ret.asked = 1
    /\ pc[Observed] = "built"
    /\ token.expires_in = Margin
    /\ req[Observed] = 2

\* C18: a caller at the bearer attachment always finds a token in the slot,
\* and no call ever ends in the panic of unwrap on an empty slot.
C18_UnwrapNeverFails ==
    \A c \in Callers :
        /\ pc[c] \in {"build", "built"} => token # None
        /\ result[c] # "panic"

\* C18 witness: the first fetch, on the empty slot, failed and its caller got
\* the error with no request built; the next caller fetched in turn and is at
\* the attachment with a token in the slot.
C18_Witness ==
    /\ calls = 2
    /\ issued = 2
    /\ \E c, d \in Callers :
          /\ pc[c] = "build"
          /\ arm = "fetch"
          /\ token # None
          /\ pc[d] = "done"
          /\ result[d] \in ErrorKinds
          /\ req[d] = 0

\* The override without the slashes at its end, found by position rather
\* than by trimming.
Unslashed(x) ==
    LET n == CHOOSE k \in 0..Len(x) :
                 /\ k = 0 \/ x[k] # "/"
                 /\ \A i \in (k + 1)..Len(x) : x[i] = "/"
    IN  SubSeq(x, 1, n)

\* C16: the URL of the request is the effective base followed by the path,
\* the base being the override without its trailing slash or slashes, or the
\* default endpoint when no override is given; for an override ending in '/'
\* the path's leading slash is the only slash at the join.
C16_UrlJoin ==
    ret # None =>
        LET given == ret.base_url.str
            base == IF ret.base_url.some THEN Unslashed(given) ELSE DefaultBase
            at == Len(base)
        IN  /\ ret.request = base \o ret.url
            /\ Len(ret.request) = at + Len(ret.url)
            /\ (ret.base_url.some /\ Len(given) > 0 /\ given[Len(given)] = "/") =>
                   /\ ret.request[at + 1] = "/"
                   /\ at > 0 => ret.request[at] # "/"
                   /\ ret.request[at + 2] # "/"

\* C16 witness: an override ending in two slashes joined to a path.
C16_Witness ==
    /\ ret # None
    /\ ret.base_url = SomeBase(<<"h", "/", "/">>)
    /\ ret.url = <<"/", "o">>
    /\ ret.request = <<"h", "/", "o">>

\* A caller between the acquisition of the lock and the return of
\* create_request.
InCreateRequest(c) == pc[c] \in {"locked", "fetching", "build", "built"}

\* C19: the lock is held only by a caller inside create_request, so every
\* return, the error return of a failed fetch included, has released it; and
\* with every issuer call returning, every caller waiting for the lock gets
\* it and every call of create_request returns.
C19_LockReleasedAndProgress ==
    /\ [](\A c \in Callers : guard = c => InCreateRequest(c))
    /\ \A c \in Callers : pc[c] = "waiting" ~> pc[c] = "locked"
    /\ \A c \in Callers : pc[c] = "waiting" ~> pc[c] \in {"sending", "done"}

\* C19 witness: a fetch has failed, its caller has the error and the lock is
\* with another caller while a third one waits.
C19_Witness ==
    \E c, d, w \in Callers :
        /\ pc[d] = "done" /\ result[d] \in ErrorKinds /\ req[d] = 0
        /\ guard = c /\ pc[c] = "locked"
        /\ pc[w] = "waiting"

\* The rows of the table that carry the id, as a function of the table.
RowsIn(table, id) == {i \in 1..Len(table) : table[i].id = id}

====
